---------------------------- MODULE Spec2Model ----------------------------
(***************************************************************************)
(* Model of main.py of takeout-to-pdf: the message-normalisation pipeline  *)
(* (decode_mime, _extract_body_part, _decode_body, _extract_images,        *)
(* process_email), the load loop and the sort by date.                     *)
(*                                                                         *)
(* Text is a sequence of units.  A unit is one character ("A", " ",        *)
(* "U+00E9", ...), one complete HTML tag ("<p>"), or one fixed piece of    *)
(* text the program emits ("[Decode Error:", "Unknown Sender", ...).       *)
(* Bytes are written in hex ("41", "E9"); "3C703E" is the three bytes of   *)
(* the tag <p> taken as one unit.                                          *)
(*                                                                         *)
(* Spec is the program up to the sorted list (the HTML and PDF steps that  *)
(* follow only read it).  SpecHeader, SpecSelect, SpecBody, SpecImages,    *)
(* SpecNormalize and SpecOrder apply one function each to an argument      *)
(* drawn from a bounded set: arg is the argument, ret the result.  A       *)
(* result carries exc, the exception that left the function, or "none".    *)
(***************************************************************************)
EXTENDS Integers, Sequences, FiniteSets, TLC

VARIABLES pc, arg, ret, prev, emails, nread

vars == <<pc, arg, ret, prev, emails, nread>>

(***************************************************************************)
(* Bounds                                                                  *)
(***************************************************************************)
MaxHdrBytes == 3
MaxSegs == 2
MaxLiteral == 2

(***************************************************************************)
(* Generic helpers                                                         *)
(***************************************************************************)
SeqsUpTo(S, n) == UNION {[1..k -> S] : k \in 0..n}

Range(s) == {s[i] : i \in 1..Len(s)}

NoExc == "none"

Ok(v) == [exc |-> NoExc, val |-> v]

Raise(e) == [exc |-> e, val |-> <<>>]

(***************************************************************************)
(* bytes.decode(charset, errors="replace")                                 *)
(***************************************************************************)
IsAscii(b) == b \in {"41", "20", "3C703E"}

AsciiChar(b) == CASE b = "41" -> "A"
                  [] b = "20" -> " "
                  [] b = "3C703E" -> "<p>"

Latin1Char(b) == IF IsAscii(b) THEN AsciiChar(b)
                 ELSE CASE b = "C3" -> "U+00C3"
                        [] b = "A9" -> "U+00A9"
                        [] b = "E9" -> "U+00E9"

Latin1Decode(bs) == [i \in 1..Len(bs) |-> Latin1Char(bs[i])]

RECURSIVE Utf8From(_, _)
Utf8From(bs, i) ==
    IF i > Len(bs) THEN <<>>
    ELSE IF IsAscii(bs[i]) THEN <<AsciiChar(bs[i])>> \o Utf8From(bs, i + 1)
    ELSE IF bs[i] = "C3" /\ i + 1 <= Len(bs) /\ bs[i + 1] = "A9"
         THEN <<"U+00E9">> \o Utf8From(bs, i + 2)
    ELSE IF bs[i] = "E9" /\ i + 2 <= Len(bs) /\ bs[i + 1] = "A9" /\ bs[i + 2] = "A9"
         THEN <<"U+9A69">> \o Utf8From(bs, i + 3)
    ELSE IF bs[i] = "E9" /\ i + 1 <= Len(bs) /\ bs[i + 1] = "A9"
         THEN <<"U+FFFD">> \o Utf8From(bs, i + 2)
    ELSE <<"U+FFFD">> \o Utf8From(bs, i + 1)

Utf8Decode(bs) == Utf8From(bs, 1)

HasNonAscii(bs) == \E i \in 1..Len(bs) : ~IsAscii(bs[i])

\* The codecs a declared character-set name can select: "utf-8" and
\* "latin-1" decode, "x-unknown" is no codec (LookupError), "idna" is a codec
\* that rejects the "replace" error policy (UnicodeError), "punycode" is the
\* one codec that raises UnicodeDecodeError under "replace", on any byte
\* outside ASCII; it is modelled on such byte strings only.
Charsets == {"utf-8", "x-unknown", "idna", "punycode"}

Decodable(bs, charset) == charset = "punycode" => HasNonAscii(bs)

BytesDecode(bs, charset) ==
    CASE charset = "utf-8" -> Ok(Utf8Decode(bs))
      [] charset = "latin-1" -> Ok(Latin1Decode(bs))
      [] charset = "idna" -> Raise("UnicodeError")
      [] charset = "punycode" -> (CASE HasNonAscii(bs) -> Raise("UnicodeDecodeError"))
      [] OTHER -> Raise("LookupError")

(***************************************************************************)
(* decode_mime                                                             *)
(***************************************************************************)
HdrByte == {"41", "C3", "A9", "E9"}

LiteralChar == {"A", " "}

\* The segments of a header of bytes bs cut at the positions cuts, the i-th
\* segment tagged with the character set cs[i].
Segments(bs, cuts, cs) ==
    [i \in 1..Len(cs) |->
         [bytes |-> SubSeq(bs, (IF i = 1 THEN 0 ELSE cuts[i - 1]) + 1,
                           IF i = Len(cs) THEN Len(bs) ELSE cuts[i]),
          charset |-> cs[i]]]

\* The ways to cut bs into k segments.
Cuts(bs, k) ==
    {c \in [1..(k - 1) -> 0..Len(bs)] : \A i \in 1..(k - 2) : c[i] <= c[i + 1]}

\* A header value as process_email reads it, when it is not an encoded one:
\* absent (None) or literal text without encoded words.
PlainHeaders ==
    {[kind |-> "absent", text |-> <<>>, segs |-> <<>>]}
    \cup {[kind |-> "literal", text |-> t, segs |-> <<>>] : t \in SeqsUpTo(LiteralChar, MaxLiteral)}

\* h is a header of encoded-word and literal segments: at most MaxSegs
\* segments and MaxHdrBytes bytes.
IsEncodedHeader(h) ==
    \E k \in 1..MaxSegs : \E bs \in SeqsUpTo(HdrByte, MaxHdrBytes) :
        \E cuts \in Cuts(bs, k) : \E cs \in [1..k -> Charsets \cup {"none"}] :
            LET segs == Segments(bs, cuts, cs)
            IN  /\ \A i \in 1..k : Decodable(segs[i].bytes, segs[i].charset)
                /\ h = [kind |-> "encoded", text |-> <<>>, segs |-> segs]

\* email.header.decode_header(text or ""): one (str, None) pair for a header
\* without encoded words, else (bytes, charset) pairs.
decode_header(h) ==
    IF h.kind = "encoded"
    THEN [i \in 1..Len(h.segs) |->
              [isbytes |-> TRUE, str |-> <<>>, bytes |-> h.segs[i].bytes,
               encoding |-> h.segs[i].charset]]
    ELSE <<[isbytes |-> FALSE, str |-> h.text, bytes |-> <<>>, encoding |-> "none"]>>

\* DecodedPart without the Latin-1 retry: a rejected character set yields the
\* marker at once.
DecodedPart_MarkerOnLookup(p) ==
    IF p.isbytes
    THEN LET first == BytesDecode(p.bytes, IF p.encoding = "none" THEN "utf-8" ELSE p.encoding)
         IN  IF first.exc = NoExc THEN first
             ELSE IF first.exc \in {"UnicodeDecodeError", "LookupError"}
                  THEN Ok(<<"[Decode Error:", first.exc, "]">>)
                  ELSE first
    ELSE Ok(p.str)

\* One iteration of the loop of decode_mime: the text appended for a pair.
DecodedPart(p) ==
    IF p.isbytes
    THEN LET first == BytesDecode(p.bytes, IF p.encoding = "none" THEN "utf-8" ELSE p.encoding)
         IN  IF first.exc = NoExc THEN first
             ELSE IF first.exc \in {"UnicodeDecodeError", "LookupError"}
                  THEN LET second == BytesDecode(p.bytes, "latin-1")
                       IN  IF second.exc = NoExc THEN second
                           ELSE Ok(<<"[Decode Error:", second.exc, "]">>)
                  ELSE first
    ELSE Ok(p.str)

RECURSIVE JoinSpace(_)
JoinSpace(ts) ==
    IF Len(ts) = 0 THEN <<>>
    ELSE IF Len(ts) = 1 THEN ts[1]
    ELSE ts[1] \o <<" ">> \o JoinSpace(Tail(ts))

RECURSIVE DecodeLoop(_, _)
DecodeLoop(pairs, decoded) ==
    IF Len(pairs) = 0 THEN Ok(JoinSpace(decoded))
    ELSE LET d == DecodedPart(Head(pairs))
         IN  IF d.exc # NoExc THEN d
             ELSE DecodeLoop(Tail(pairs), Append(decoded, d.val))

decode_mime(h) == DecodeLoop(decode_header(h), <<>>)

(***************************************************************************)
(* Specification of decode_mime alone                                      *)
(***************************************************************************)
InitHeader ==
    /\ pc = "call"
    /\ arg \in PlainHeaders \/ IsEncodedHeader(arg)
    /\ ret = Ok(<<>>)
    /\ prev = Ok(<<>>)
    /\ emails = <<>>
    /\ nread = 0

CallDecodeMime ==
    /\ pc = "call"
    /\ ret' = decode_mime(arg)
    /\ pc' = "returned"
    /\ UNCHANGED <<arg, prev, emails, nread>>

NextHeader == CallDecodeMime

SpecHeader == InitHeader /\ [][NextHeader]_vars

(***************************************************************************)
(* Messages and parts                                                      *)
(*                                                                         *)
(* A message is given by the sequence message.walk() yields (the root      *)
(* first, then every sub-part depth-first); a non-multipart message is a   *)
(* walk of one part.  hashdr says whether the part carries any header      *)
(* field: email.message.Message defines __len__ as the number of header    *)
(* fields, so a part without header fields is falsy; its content type is   *)
(* the default text/plain.  failAt = k > 0 means walk() raises when asked  *)
(* for its k-th element; messages parsed from an archive have failAt = 0,  *)
(* a failing walk is exercised on _extract_images, which handles it.       *)
(***************************************************************************)
MaxParts == 3

NoPayload == [kind |-> "none", bytes |-> <<>>]

BytesPayload(bs) == [kind |-> "bytes", bytes |-> bs]

RaisingPayload == [kind |-> "raises", bytes |-> <<>>]

MkPart(ct, h, cs, pl) == [ctype |-> ct, hashdr |-> h, charset |-> cs, payload |-> pl]

ContainerPart == MkPart("multipart/mixed", TRUE, "none", NoPayload)

MkMessage(mp, ps, f, fr, su, d) ==
    [multipart |-> mp, parts |-> ps, failAt |-> f, from |-> fr, subject |-> su, date |-> d]

AbsentHeader == [kind |-> "absent", text |-> <<>>, segs |-> <<>>]

AbsentDate == [kind |-> "absent", tz |-> "none", t |-> 0]

is_multipart(m) == m.multipart

get_content_type(p) == p.ctype

get_content_maintype(p) ==
    CASE p.ctype \in {"text/plain", "text/html"} -> "text"
      [] p.ctype \in {"image/png", "image/jpeg"} -> "image"
      [] p.ctype = "multipart/mixed" -> "multipart"
      [] OTHER -> "application"

\* bool(part): len(part) # 0
Truthy(p) == p.hashdr

\* The i-th step of "for part in message.walk()".
WalkRaises(m, i) == m.failAt = i

WalkEnded(m, i) == i > Len(m.parts)

(***************************************************************************)
(* _extract_body_part; parts are returned as positions in the walk,        *)
(* 0 for None.                                                             *)
(***************************************************************************)
RECURSIVE BodyWalk(_, _, _)
BodyWalk(m, i, html_part) ==
    IF WalkRaises(m, i) THEN [exc |-> "WalkError", text_part |-> 0, html_part |-> 0]
    ELSE IF WalkEnded(m, i) THEN [exc |-> NoExc, text_part |-> 0, html_part |-> html_part]
    ELSE IF get_content_type(m.parts[i]) = "text/plain"
         THEN [exc |-> NoExc, text_part |-> i, html_part |-> html_part]
    ELSE IF get_content_type(m.parts[i]) = "text/html"
         THEN BodyWalk(m, i + 1, i)
    ELSE BodyWalk(m, i + 1, html_part)

_extract_body_part(m) ==
    IF is_multipart(m) THEN BodyWalk(m, 1, 0)
    ELSE IF get_content_type(m.parts[1]) \in {"text/plain", "text/html"}
         THEN [exc |-> NoExc, text_part |-> 1, html_part |-> 0]
         ELSE [exc |-> NoExc, text_part |-> 0, html_part |-> 0]

\* "text_part or html_part" of process_email
TargetPart(m, text_part, html_part) ==
    IF text_part # 0 /\ Truthy(m.parts[text_part]) THEN text_part ELSE html_part

\* "if target_part:"
TargetSelected(m, target_part) == target_part # 0 /\ Truthy(m.parts[target_part])

(***************************************************************************)
(* Specification of the body selection alone                               *)
(***************************************************************************)
SelectPart == {MkPart("text/plain", TRUE, "none", NoPayload),
               MkPart("text/plain", FALSE, "none", NoPayload),
               MkPart("text/html", TRUE, "none", NoPayload),
               MkPart("image/png", TRUE, "none", NoPayload),
               MkPart("application/pdf", TRUE, "none", NoPayload),
               ContainerPart}

SelectMessages ==
    {MkMessage(TRUE, <<ContainerPart>> \o ps, 0, AbsentHeader, AbsentHeader, AbsentDate) :
         ps \in SeqsUpTo(SelectPart, MaxParts)}
    \cup {MkMessage(FALSE, <<p>>, 0, AbsentHeader, AbsentHeader, AbsentDate) :
              p \in SelectPart \ {ContainerPart}}

InitSelect ==
    /\ pc = "call"
    /\ arg \in SelectMessages
    /\ ret = [exc |-> NoExc, text_part |-> 0, html_part |-> 0, target_part |-> 0]
    /\ prev = Ok(<<>>)
    /\ emails = <<>>
    /\ nread = 0

CallExtractBodyPart ==
    /\ pc = "call"
    /\ LET r == _extract_body_part(arg)
       IN  ret' = [exc |-> r.exc, text_part |-> r.text_part, html_part |-> r.html_part,
                   target_part |-> IF r.exc = NoExc
                                   THEN TargetPart(arg, r.text_part, r.html_part) ELSE 0]
    /\ pc' = "returned"
    /\ UNCHANGED <<arg, prev, emails, nread>>

NextSelect == CallExtractBodyPart

SpecSelect == InitSelect /\ [][NextSelect]_vars

(***************************************************************************)
(* _decode_body                                                            *)
(***************************************************************************)
MaxBody == 3

Whitespace == {" ", "\n"}

RECURSIVE LStrip(_)
LStrip(t) == IF Len(t) > 0 /\ Head(t) \in Whitespace THEN LStrip(Tail(t)) ELSE t

RECURSIVE RStrip(_)
RStrip(t) ==
    IF Len(t) > 0 /\ t[Len(t)] \in Whitespace THEN RStrip(SubSeq(t, 1, Len(t) - 1)) ELSE t

\* str.strip()
Strip(t) == RStrip(LStrip(t))

IsTag(u) == u = "<p>"

\* The text nodes of the parsed document: the maximal runs between tags.
RECURSIVE TextNodes(_, _)
TextNodes(t, cur) ==
    IF Len(t) = 0 THEN <<cur>>
    ELSE IF IsTag(Head(t)) THEN <<cur>> \o TextNodes(Tail(t), <<>>)
    ELSE TextNodes(Tail(t), Append(cur, Head(t)))

RECURSIVE JoinStripped(_)
JoinStripped(nodes) ==
    IF Len(nodes) = 0 THEN <<>>
    ELSE LET h == Strip(Head(nodes))
             r == JoinStripped(Tail(nodes))
         IN  IF Len(h) = 0 THEN r
             ELSE IF Len(r) = 0 THEN h
             ELSE h \o <<"\n">> \o r

\* BeautifulSoup(body, "html.parser").get_text(separator="\n", strip=True)
GetText(t) == JoinStripped(TextNodes(t, <<>>))

\* part.get_content_charset("utf-8")
get_content_charset(p) == IF p.charset = "none" THEN "utf-8" ELSE p.charset

BodyDecodeError(e) == Ok(<<"[Body decode error:", e, "]">>)

\* _decode_body without the final "except Exception".
_decode_body_NoCatchAll(part) ==
    IF part.payload.kind = "raises" THEN Raise("Exception")
    ELSE IF part.payload.kind = "none" THEN Raise("AttributeError")
    ELSE LET payload == part.payload.bytes
             body_content == BytesDecode(payload, get_content_charset(part))
         IN  IF body_content.exc = NoExc
             THEN IF get_content_type(part) = "text/html"
                  THEN Ok(GetText(body_content.val))
                  ELSE Ok(Strip(body_content.val))
             ELSE IF body_content.exc \in {"UnicodeDecodeError", "LookupError"}
                  THEN Ok(Strip(Latin1Decode(payload)))
             ELSE Raise(body_content.exc)

_decode_body(part) ==
    IF part.payload.kind = "raises" THEN BodyDecodeError("Exception")
    ELSE IF part.payload.kind = "none" THEN BodyDecodeError("AttributeError")
    ELSE LET payload == part.payload.bytes
             body_content == BytesDecode(payload, get_content_charset(part))
         IN  IF body_content.exc = NoExc
             THEN IF get_content_type(part) = "text/html"
                  THEN Ok(GetText(body_content.val))
                  ELSE Ok(Strip(body_content.val))
             ELSE IF body_content.exc \in {"UnicodeDecodeError", "LookupError"}
                  THEN Ok(Strip(Latin1Decode(payload)))
             ELSE BodyDecodeError(body_content.exc)

(***************************************************************************)
(* Specification of _decode_body alone                                     *)
(***************************************************************************)
BodyByte == {"41", "20", "3C703E", "E9"}

BodyParts ==
    {MkPart(x[1], TRUE, x[2], x[3]) :
         x \in {y \in {"text/plain", "text/html"} \X (Charsets \cup {"none"})
                       \X ({NoPayload, RaisingPayload}
                           \cup {BytesPayload(bs) : bs \in SeqsUpTo(BodyByte, MaxBody)}) :
                    Decodable(y[3].bytes, y[2])}}

InitBody ==
    /\ pc = "call"
    /\ arg \in BodyParts
    /\ ret = Ok(<<>>)
    /\ prev = Ok(<<>>)
    /\ emails = <<>>
    /\ nread = 0

CallDecodeBody ==
    /\ pc = "call"
    /\ ret' = _decode_body(arg)
    /\ pc' = "returned"
    /\ UNCHANGED <<arg, prev, emails, nread>>

NextBody == CallDecodeBody

SpecBody == InitBody /\ [][NextBody]_vars

(***************************************************************************)
(* _extract_images                                                         *)
(***************************************************************************)
ByteVal(b) == CASE b = "00" -> 0
                [] b = "41" -> 65
                [] b = "FF" -> 255

B64Alphabet ==
    <<
      "A", "B", "C", "D", "E", "F", "G", "H", "I", "J", "K", "L", "M", "N", "O", "P",
      "Q", "R", "S", "T", "U", "V", "W", "X", "Y", "Z", "a", "b", "c", "d", "e", "f",
      "g", "h", "i", "j", "k", "l", "m", "n", "o", "p", "q", "r", "s", "t", "u", "v",
      "w", "x", "y", "z", "0", "1", "2", "3", "4", "5", "6", "7", "8", "9", "+", "/"
    >>

B64Char(v) == B64Alphabet[v + 1]

\* base64.b64encode(image_data).decode("ascii")
RECURSIVE b64encode(_)
b64encode(bs) ==
    IF Len(bs) = 0 THEN <<>>
    ELSE IF Len(bs) = 1
         THEN LET b1 == ByteVal(bs[1])
              IN  <<B64Char(b1 \div 4), B64Char((b1 % 4) * 16), "=", "=">>
    ELSE IF Len(bs) = 2
         THEN LET b1 == ByteVal(bs[1])
                  b2 == ByteVal(bs[2])
              IN  <<B64Char(b1 \div 4), B64Char((b1 % 4) * 16 + b2 \div 16),
                    B64Char((b2 % 16) * 4), "=">>
    ELSE LET b1 == ByteVal(bs[1])
             b2 == ByteVal(bs[2])
             b3 == ByteVal(bs[3])
         IN  <<B64Char(b1 \div 4), B64Char((b1 % 4) * 16 + b2 \div 16),
               B64Char((b2 % 16) * 4 + b3 \div 64), B64Char(b3 % 64)>>
             \o b64encode(SubSeq(bs, 4, Len(bs)))

ImageEntry(mime, data) == [mime_type |-> mime, data |-> data]

ImageError(e) == ImageEntry("text/plain", <<"Image error:", e>>)

ImageExtractionFailed(e) == ImageEntry("text/plain", <<"Image extraction failed:", e>>)

\* ImagesAfterPart with a diagnostic entry for an empty or absent payload.
ImagesAfterPart_DiagnosticOnEmpty(part, images) ==
    IF get_content_maintype(part) = "image"
    THEN IF part.payload.kind = "bytes" /\ Len(part.payload.bytes) > 0
         THEN Append(images, ImageEntry(get_content_type(part),
                                        b64encode(part.payload.bytes)))
         ELSE Append(images, ImageError("Exception"))
    ELSE images

\* The body of the loop over message.walk() for one part: the images list
\* after the part.
ImagesAfterPart(part, images) ==
    IF get_content_maintype(part) = "image"
    THEN IF part.payload.kind = "raises"
         THEN Append(images, ImageError("Exception"))
         ELSE IF part.payload.kind = "bytes" /\ Len(part.payload.bytes) > 0
              THEN Append(images, ImageEntry(get_content_type(part),
                                             b64encode(part.payload.bytes)))
              ELSE images
    ELSE images

\* ImageWalk with the list reset to the one diagnostic entry when the walk fails.
RECURSIVE ImageWalk_ResetOnFailure(_, _, _)
ImageWalk_ResetOnFailure(m, i, images) ==
    IF WalkRaises(m, i) THEN <<ImageExtractionFailed("WalkError")>>
    ELSE IF WalkEnded(m, i) THEN images
    ELSE ImageWalk_ResetOnFailure(m, i + 1, ImagesAfterPart(m.parts[i], images))

RECURSIVE ImageWalk(_, _, _)
ImageWalk(m, i, images) ==
    IF WalkRaises(m, i) THEN Append(images, ImageExtractionFailed("WalkError"))
    ELSE IF WalkEnded(m, i) THEN images
    ELSE ImageWalk(m, i + 1, ImagesAfterPart(m.parts[i], images))

_extract_images(m) == IF is_multipart(m) THEN ImageWalk(m, 1, <<>>) ELSE <<>>

(***************************************************************************)
(* Specification of _extract_images alone                                  *)
(***************************************************************************)
ImagePart == {MkPart("image/png", TRUE, "none", NoPayload),
              MkPart("image/png", TRUE, "none", BytesPayload(<<>>)),
              MkPart("image/png", TRUE, "none", BytesPayload(<<"FF">>)),
              MkPart("image/jpeg", TRUE, "none", BytesPayload(<<"00", "41", "FF", "41">>)),
              MkPart("image/png", TRUE, "none", RaisingPayload),
              MkPart("text/plain", TRUE, "none", BytesPayload(<<"41">>)),
              ContainerPart}

ImageMessages ==
    {MkMessage(TRUE, <<ContainerPart>> \o ps, f, AbsentHeader, AbsentHeader, AbsentDate) :
         <<ps, f>> \in {x \in SeqsUpTo(ImagePart, MaxParts) \X (0..(MaxParts + 2)) :
                            x[2] <= Len(x[1]) + 2}}
    \cup {MkMessage(FALSE, <<p>>, 0, AbsentHeader, AbsentHeader, AbsentDate) :
              p \in ImagePart \ {ContainerPart}}

InitImages ==
    /\ pc = "call"
    /\ arg \in ImageMessages
    /\ ret = <<>>
    /\ prev = Ok(<<>>)
    /\ emails = <<>>
    /\ nread = 0

CallExtractImages ==
    /\ pc = "call"
    /\ ret' = _extract_images(arg)
    /\ pc' = "returned"
    /\ UNCHANGED <<arg, prev, emails, nread>>

NextImages == CallExtractImages

SpecImages == InitImages /\ [][NextImages]_vars

(***************************************************************************)
(* process_email                                                           *)
(***************************************************************************)
MaxTime == 2
MaxNormParts == 2

\* A datetime is an instant t that is offset-aware or offset-naive
\* (parsedate_to_datetime returns a naive datetime for the zone "-0000").
NoneDate == [tz |-> "none", t |-> 0]

DateTimes == [tz : {"naive", "aware"}, t : 1..MaxTime]

\* message["date"]: no Date field, an empty one, one that is not a date, or a date
DateHeaders ==
    {AbsentDate, [kind |-> "empty", tz |-> "none", t |-> 0],
     [kind |-> "unparsable", tz |-> "none", t |-> 0]}
    \cup {[kind |-> "date", tz |-> d.tz, t |-> d.t] : d \in DateTimes}

\* email.utils.parsedate_to_datetime
parsedate_to_datetime(h) ==
    IF h.kind = "date" THEN Ok([tz |-> h.tz, t |-> h.t])
    ELSE [exc |-> "ValueError", val |-> NoneDate]

\* bool(e["date"]): a datetime is always truthy, None is not
HasDate(e) == e.date # NoneDate

EmailData(d, f, s, b, i) == [date |-> d, from |-> f, subject |-> s, body |-> b, images |-> i]

NoEmail == EmailData(NoneDate, <<>>, <<>>, <<>>, <<>>)

Raised(e) == [exc |-> e, val |-> NoEmail]

\* "x or default" with the default forgotten
OrText_NoDefault(x, default) == x

\* x or default, for text
OrText(x, default) == IF Len(x) > 0 THEN x ELSE default

process_email(m) ==
    LET date == IF m.date.kind \in {"absent", "empty"}
                THEN [exc |-> NoExc, val |-> NoneDate]
                ELSE parsedate_to_datetime(m.date)
        from == decode_mime(m.from)
        subject == decode_mime(m.subject)
        sel == _extract_body_part(m)
        target_part == TargetPart(m, sel.text_part, sel.html_part)
        body == IF TargetSelected(m, target_part)
                THEN LET b == _decode_body(m.parts[target_part])
                     IN  IF b.exc = NoExc
                         THEN Ok(OrText(b.val, <<"[Empty content]">>)) ELSE b
                ELSE Ok(<<"[No content available]">>)
    IN  IF date.exc # NoExc THEN Raised(date.exc)
        ELSE IF from.exc # NoExc THEN Raised(from.exc)
        ELSE IF subject.exc # NoExc THEN Raised(subject.exc)
        ELSE IF sel.exc # NoExc THEN Raised(sel.exc)
        ELSE IF body.exc # NoExc THEN Raised(body.exc)
        ELSE [exc |-> NoExc,
              val |-> EmailData(date.val,
                                OrText(from.val, <<"Unknown Sender">>),
                                OrText(subject.val, <<"No Subject">>),
                                body.val,
                                _extract_images(m))]

(***************************************************************************)
(* Specification of process_email alone                                    *)
(***************************************************************************)
Literal(t) == [kind |-> "literal", text |-> t, segs |-> <<>>]

Encoded(bs, cs) == [kind |-> "encoded", text |-> <<>>, segs |-> <<[bytes |-> bs, charset |-> cs]>>]

NormHeaders == {AbsentHeader, Literal(<<"A">>), Encoded(<<>>, "utf-8"), Encoded(<<"41">>, "idna")}

NormPart == {MkPart("text/plain", TRUE, "none", BytesPayload(<<"41">>)),
             MkPart("text/plain", TRUE, "none", BytesPayload(<<"20">>)),
             MkPart("text/plain", FALSE, "none", BytesPayload(<<"41">>)),
             MkPart("text/plain", TRUE, "none", NoPayload),
             MkPart("text/html", TRUE, "x-unknown", BytesPayload(<<"3C703E", "41">>)),
             MkPart("image/png", TRUE, "none", BytesPayload(<<"FF">>)),
             MkPart("image/png", TRUE, "none", BytesPayload(<<>>)),
             MkPart("application/pdf", TRUE, "none", BytesPayload(<<"41">>))}

NormShapes ==
    {<<TRUE, <<ContainerPart>> \o ps, 0>> : ps \in SeqsUpTo(NormPart, MaxNormParts)}
    \cup {<<FALSE, <<p>>, 0>> : p \in NormPart}

NormMessages ==
    {MkMessage(sh[1], sh[2], sh[3], fr, su, d) :
         <<sh, fr, su, d>> \in NormShapes \X NormHeaders \X NormHeaders \X DateHeaders}

InitNormalize ==
    /\ pc = "call"
    /\ arg \in NormMessages
    /\ ret = Raised(NoExc)
    /\ prev = Ok(<<>>)
    /\ emails = <<>>
    /\ nread = 0

CallProcessEmail ==
    /\ pc = "call"
    /\ ret' = process_email(arg)
    /\ pc' = "returned"
    /\ UNCHANGED <<arg, prev, emails, nread>>

NextNormalize == CallProcessEmail

SpecNormalize == InitNormalize /\ [][NextNormalize]_vars

(***************************************************************************)
(* Sort by date                                                            *)
(***************************************************************************)
MaxRecords == 4

\* x["date"] < y["date"] raises TypeError between an offset-naive and an
\* offset-aware datetime.
Comparable(x, y) == x.date.tz = y.date.tz

\* An insertion that is not stable: an element goes before the elements of
\* equal key.
RECURSIVE InsertByDate_BeforeEqual(_, _)
InsertByDate_BeforeEqual(sorted, e) ==
    IF Len(sorted) = 0 THEN <<e>>
    ELSE IF e.date.t <= sorted[Len(sorted)].date.t
         THEN Append(InsertByDate_BeforeEqual(SubSeq(sorted, 1, Len(sorted) - 1), e),
                     sorted[Len(sorted)])
         ELSE Append(sorted, e)

\* sorted(..., key=lambda x: x["date"]) is stable: an element goes after
\* every element whose key is not greater.
RECURSIVE InsertByDate(_, _)
InsertByDate(sorted, e) ==
    IF Len(sorted) = 0 THEN <<e>>
    ELSE IF e.date.t < sorted[Len(sorted)].date.t
         THEN Append(InsertByDate(SubSeq(sorted, 1, Len(sorted) - 1), e), sorted[Len(sorted)])
         ELSE Append(sorted, e)

RECURSIVE SortedByDate(_)
SortedByDate(es) ==
    IF Len(es) = 0 THEN <<>>
    ELSE InsertByDate(SortedByDate(SubSeq(es, 1, Len(es) - 1)), es[Len(es)])

Order(es) ==
    LET dated == SelectSeq(es, LAMBDA e : HasDate(e))
        undated == SelectSeq(es, LAMBDA e : ~HasDate(e))
    IN  IF \E i, j \in 1..Len(dated) : ~Comparable(dated[i], dated[j])
        THEN Raise("TypeError")
        ELSE Ok(SortedByDate(dated) \o undated)

(***************************************************************************)
(* Specification of the sort alone: it is applied to a list of records,    *)
(* and once more to its own result.                                        *)
(***************************************************************************)
OrderDates == {NoneDate} \cup DateTimes

\* The i-th record of the list carries i as its subject.
OrderInputs ==
    {[i \in 1..Len(ds) |-> EmailData(ds[i], <<"Unknown Sender">>, <<ToString(i)>>,
                                     <<"[No content available]">>, <<>>)] :
         ds \in SeqsUpTo(OrderDates, MaxRecords)}

InitOrder ==
    /\ pc = "call"
    /\ arg \in OrderInputs
    /\ ret = Ok(<<>>)
    /\ prev = Ok(<<>>)
    /\ emails = <<>>
    /\ nread = 0

CallOrder ==
    /\ pc = "call"
    /\ ret' = Order(arg)
    /\ pc' = "once"
    /\ UNCHANGED <<arg, prev, emails, nread>>

CallOrderAgain ==
    /\ pc = "once"
    /\ ret.exc = NoExc
    /\ prev' = ret
    /\ ret' = Order(ret.val)
    /\ pc' = "twice"
    /\ UNCHANGED <<arg, emails, nread>>

NextOrder == CallOrder \/ CallOrderAgain

SpecOrder == InitOrder /\ [][NextOrder]_vars

(***************************************************************************)
(* The program: the load loop over the archive, then the sort              *)
(***************************************************************************)
MaxMsgs == 3

TextMessage(fr, d) ==
    MkMessage(FALSE, <<MkPart("text/plain", TRUE, "none", BytesPayload(<<"41">>))>>, 0,
              fr, Literal(<<"A">>), d)

\* The messages the archive reader can hand to the loop.
MboxMessages ==
    {TextMessage(Literal(<<"A">>), d) : d \in DateHeaders}
    \cup {TextMessage(Encoded(<<"41">>, "idna"), AbsentDate),
          MkMessage(TRUE, <<ContainerPart, MkPart("image/png", TRUE, "none", BytesPayload(<<"FF">>))>>,
                    0, AbsentHeader, AbsentHeader, AbsentDate),
          MkMessage(TRUE, <<ContainerPart, MkPart("text/html", TRUE, "x-unknown", BytesPayload(<<"3C703E", "41">>))>>,
                    0, AbsentHeader, AbsentHeader, AbsentDate)}

Init ==
    /\ pc = "load"
    /\ arg = TextMessage(AbsentHeader, AbsentDate)
    /\ ret = NoExc
    /\ prev = Ok(<<>>)
    /\ emails = <<>>
    /\ nread = 0

\* One iteration of "for message in mbox: emails.append(process_email(message))"
LoadMessage ==
    /\ pc = "load"
    /\ nread < MaxMsgs
    /\ \E message \in MboxMessages :
           LET r == process_email(message)
           IN  /\ arg' = message
               /\ nread' = nread + 1
               /\ IF r.exc = NoExc
                  THEN /\ emails' = Append(emails, r.val)
                       /\ pc' = "load"
                       /\ ret' = ret
                  ELSE /\ emails' = emails
                       /\ pc' = "load_raised"
                       /\ ret' = r.exc
    /\ UNCHANGED prev

\* The archive is exhausted: mbox.close()
CloseMbox ==
    /\ pc = "load"
    /\ pc' = "sort"
    /\ UNCHANGED <<arg, ret, prev, emails, nread>>

\* emails = sorted([e for e in emails if e["date"]], key=...) + [e for e in emails if not e["date"]]
SortByDate ==
    /\ pc = "sort"
    /\ LET r == Order(emails)
       IN  IF r.exc = NoExc
           THEN /\ emails' = r.val
                /\ pc' = "sorted"
                /\ ret' = ret
           ELSE /\ emails' = emails
                /\ pc' = "sort_raised"
                /\ ret' = r.exc
    /\ UNCHANGED <<arg, prev, nread>>

Next == LoadMessage \/ CloseMbox \/ SortByDate

Spec == Init /\ [][Next]_vars

(***************************************************************************)
(* Properties                                                              *)
(***************************************************************************)

\* C1: process_email never raises; a message whose date is absent or
\* unparsable gives a record without timestamp, so the load loop holds one
\* record per message read and never stops on a message.
C1_OneRecordPerMessage ==
    /\ pc # "load_raised"
    /\ pc = "load" => Len(emails) = nread

\* C2: the sort returns a permutation of its input: the dated records in
\* ascending order of timestamp, equal timestamps in their original order,
\* then the undated records in their original order.
C2_TwoPartitionPermutation ==
    pc = "once" =>
        /\ ret.exc = NoExc
        /\ Len(ret.val) = Len(arg)
        /\ \A i \in 1..Len(arg) : \E j \in 1..Len(arg) : ret.val[j] = arg[i]
        /\ \A i, j \in 1..Len(arg) :
               i < j =>
                   LET x == ret.val[i]
                       y == ret.val[j]
                       ix == CHOOSE k \in 1..Len(arg) : arg[k] = x
                       iy == CHOOSE k \in 1..Len(arg) : arg[k] = y
                   IN  /\ ~HasDate(x) => ~HasDate(y)
                       /\ HasDate(x) /\ HasDate(y) => x.date.t <= y.date.t
                       /\ HasDate(x) /\ HasDate(y) /\ x.date.t = y.date.t => ix < iy
                       /\ ~HasDate(x) /\ ~HasDate(y) => ix < iy

\* C3: for a multipart message the part chosen for decoding is the first
\* text/plain part of the walk when there is one, else the last text/html
\* part, and when there is neither both candidate and fallback are absent.
C3_FirstPlainElseLastHtml ==
    pc = "returned" /\ arg.multipart /\ ret.exc = NoExc =>
        LET plains == {i \in 1..Len(arg.parts) : arg.parts[i].ctype = "text/plain"}
            htmls == {i \in 1..Len(arg.parts) : arg.parts[i].ctype = "text/html"}
        IN  IF plains # {}
            THEN ret.target_part = CHOOSE i \in plains : \A j \in plains : i <= j
            ELSE IF htmls # {}
                 THEN ret.target_part = CHOOSE i \in htmls : \A j \in htmls : j <= i
                 ELSE ret.text_part = 0 /\ ret.html_part = 0

IsImagePart(p) == p.ctype \in {"image/png", "image/jpeg"}

HasImageBytes(p) == p.payload.kind = "bytes" /\ Len(p.payload.bytes) > 0

\* The positions of the walk that the loop of _extract_images reaches.
Walked(m) == 1..(IF m.failAt = 0 THEN Len(m.parts) ELSE m.failAt - 1)

\* C4 (as claimed): one entry per image part, in walk order; an image part
\* whose payload decoding fails or yields nothing has a diagnostic entry
\* (text/plain, "Image error:") instead of being skipped, so there are as
\* many entries as image parts.
C4_OneEntryPerImagePart ==
    pc = "returned" /\ arg.multipart /\ arg.failAt = 0 =>
        LET imgs == {i \in 1..Len(arg.parts) : IsImagePart(arg.parts[i])}
        IN  /\ Len(ret) = Cardinality(imgs)
            /\ \A i \in imgs :
                   LET k == Cardinality({j \in imgs : j <= i})
                   IN  IF HasImageBytes(arg.parts[i])
                       THEN ret[k].mime_type = arg.parts[i].ctype
                       ELSE ret[k].mime_type = "text/plain" /\ ret[k].data[1] = "Image error:"

\* C4 (amended): one entry, in walk order, per walked image part whose
\* payload is non-empty (its own type, base64 data) or whose decoding raises
\* (text/plain, "Image error:"); an image part with an empty or absent
\* payload has no entry; a failing walk adds one closing entry.
C4_OneEntryPerNonEmptyImagePart ==
    pc = "returned" /\ arg.multipart =>
        LET giving == {i \in Walked(arg) : /\ IsImagePart(arg.parts[i])
                                           /\ \/ HasImageBytes(arg.parts[i])
                                              \/ arg.parts[i].payload.kind = "raises"}
        IN  /\ Len(ret) = Cardinality(giving) + (IF arg.failAt > 0 THEN 1 ELSE 0)
            /\ \A i \in giving :
                   LET k == Cardinality({j \in giving : j <= i})
                   IN  IF HasImageBytes(arg.parts[i])
                       THEN /\ ret[k].mime_type = arg.parts[i].ctype
                            /\ Len(ret[k].data) = 4 * ((Len(arg.parts[i].payload.bytes) + 2) \div 3)
                            /\ ret[k].data[1] \notin {"Image error:", "Image extraction failed:"}
                       ELSE /\ ret[k].mime_type = "text/plain"
                            /\ ret[k].data[1] = "Image error:"

\* A walk that completes over an image part with an empty payload, one whose
\* decoding raises and one with bytes: two entries for three image parts.
C4_Witness ==
    /\ pc = "returned"
    /\ arg.multipart
    /\ arg.failAt = 0
    /\ \E i, j, k \in 1..Len(arg.parts) :
           /\ IsImagePart(arg.parts[i]) /\ arg.parts[i].payload = BytesPayload(<<>>)
           /\ IsImagePart(arg.parts[j]) /\ arg.parts[j].payload.kind = "raises"
           /\ IsImagePart(arg.parts[k]) /\ HasImageBytes(arg.parts[k])
    /\ Len(ret) = 2

\* C5 (as claimed): when the walk fails, also after images were extracted,
\* the result is exactly one entry, a text/plain diagnostic.
C5_SingleDiagnosticOnWalkFailure ==
    pc = "returned" /\ arg.multipart /\ arg.failAt > 0 =>
        /\ Len(ret) = 1
        /\ ret[1].mime_type = "text/plain"

\* C5 (amended): when the walk fails the result is never empty and ends with
\* one text/plain diagnostic "Image extraction failed:"; the entries of the
\* parts walked before the failure are kept in front of it.
C5_DiagnosticAppendedOnWalkFailure ==
    pc = "returned" /\ arg.multipart /\ arg.failAt > 0 =>
        /\ Len(ret) >= 1
        /\ ret[Len(ret)].mime_type = "text/plain"
        /\ ret[Len(ret)].data[1] = "Image extraction failed:"
        /\ \A k \in 1..(Len(ret) - 1) : ret[k].data[1] # "Image extraction failed:"
        /\ SubSeq(ret, 1, Len(ret) - 1)
               = _extract_images([arg EXCEPT !.parts = SubSeq(arg.parts, 1, arg.failAt - 1),
                                             !.failAt = 0])

\* The walk failed after an image had been extracted: the image entry is
\* still there, before the diagnostic.
C5_Witness ==
    /\ pc = "returned"
    /\ arg.multipart
    /\ arg.failAt > 0
    /\ Len(ret) >= 2
    /\ ret[1].mime_type = "image/png"

HasUnsupportedCharset(h) ==
    h.kind = "encoded" /\ \E i \in 1..Len(h.segs) : h.segs[i].charset = "x-unknown"

C6_SegmentText(seg) ==
    IF seg.charset \in {"x-unknown", "punycode"}
    THEN Latin1Decode(seg.bytes) ELSE Utf8Decode(seg.bytes)

C7_DecodeBodyTotal ==
    pc = "returned" =>
        /\ ret.exc = NoExc
        /\ ret.val \in Seq(STRING)
        /\ arg.payload.kind = "none" => Len(ret.val) > 0 /\ ret.val[1] = "[Body decode error:"
        /\ arg.payload.kind = "bytes" /\ arg.charset \in {"x-unknown", "punycode"} =>
               ret.val = Strip(Latin1Decode(arg.payload.bytes))

\* A part whose character set is rejected has been decoded through Latin-1:
\* byte E9 came out as U+00E9, not as the substitution character.
C7_Witness ==
    /\ pc = "returned"
    /\ arg.charset = "x-unknown"
    /\ arg.payload = BytesPayload(<<"20", "E9", "41">>)
    /\ ret = Ok(<<"U+00E9", "A">>)

\* C8: the text of a text/html part has no markup left on any successful
\* decoding path, the Latin-1 fallback included.
C8_HtmlAlwaysStripped ==
    pc = "returned" /\ arg.ctype = "text/html" /\ arg.payload.kind = "bytes" /\ ret.exc = NoExc =>
        \/ Len(ret.val) > 0 /\ ret.val[1] = "[Body decode error:"
        \/ \A i \in 1..Len(ret.val) : ~IsTag(ret.val[i])

\* C9: sorting the result of the sort gives the same list again.
C9_OrderIdempotent == pc = "twice" => ret = prev

\* The sort has been applied twice to a list it had to reorder: dated
\* records of equal timestamp behind an undated one.
C9_Witness ==
    /\ pc = "twice"
    /\ Len(arg) >= 3
    /\ ~HasDate(arg[1])
    /\ HasDate(arg[2]) /\ HasDate(arg[3]) /\ arg[2].date = arg[3].date
    /\ prev.val # arg
    /\ ret.exc = NoExc

\* C10: a record returned by process_email has its five fields, with
\* non-empty sender, subject and body: the sender is "Unknown Sender" exactly
\* when the decoded from-header is empty (else that text), the subject "No
\* Subject" likewise, the body a placeholder when no part was selected or the
\* decoded body is empty; without image parts, or in a non-multipart
\* message, images is empty.
C10_RecordFields ==
    pc = "returned" /\ ret.exc = NoExc =>
        LET e == ret.val
            f == decode_mime(arg.from).val
            su == decode_mime(arg.subject).val
            sel == _extract_body_part(arg)
            target == TargetPart(arg, sel.text_part, sel.html_part)
        IN  /\ DOMAIN e = {"date", "from", "subject", "body", "images"}
            /\ Len(e.from) > 0 /\ Len(e.subject) > 0 /\ Len(e.body) > 0
            /\ e.from = IF f = <<>> THEN <<"Unknown Sender">> ELSE f
            /\ e.subject = IF su = <<>> THEN <<"No Subject">> ELSE su
            /\ sel.text_part = 0 /\ sel.html_part = 0 => e.body = <<"[No content available]">>
            /\ TargetSelected(arg, target) /\ _decode_body(arg.parts[target]).val = <<>>
                   => e.body = <<"[Empty content]">>
            /\ \/ ~arg.multipart
               \/ \A i \in 1..Len(arg.parts) : ~IsImagePart(arg.parts[i])
               => e.images = <<>>

\* A multipart message without from-header, with an empty subject, a body
\* of one space and no image part has been normalised to the three defaults
\* and an empty list of images.
C10_Witness ==
    /\ pc = "returned"
    /\ ret.exc = NoExc
    /\ arg.multipart
    /\ arg.from = AbsentHeader
    /\ arg.subject = Encoded(<<>>, "utf-8")
    /\ Len(arg.parts) = 2
    /\ arg.parts[2] = MkPart("text/plain", TRUE, "none", BytesPayload(<<"20">>))
    /\ ret.val.from = <<"Unknown Sender">>
    /\ ret.val.subject = <<"No Subject">>
    /\ ret.val.body = <<"[Empty content]">>
    /\ ret.val.images = <<>>

=============================================================================
